---- MODULE Spec2Model ----
(***************************************************************************)
(* Model of the WebSSH mock system: the in-memory file tree, the working   *)
(* directory cursor, path resolution and the command interpreter of        *)
(* src/services/mockSys.ts, and of the components that drive it: the       *)
(* session, terminal and file browser state of src/App.tsx, the AI chat    *)
(* panel and the connection form with its saved profiles.                  *)
(*                                                                         *)
(* A JavaScript string is a sequence of atoms.  The atoms "/", ".", " ",   *)
(* "\t" and "\n" are the single characters the code inspects; every other  *)
(* atom stands for a non-empty run of characters holding no slash and no   *)
(* white space (a word such as "home" or "todo.md").  So "/home/user" is   *)
(* <<"/", "home", "/", "user">> and ".." is <<".", ".">>.                  *)
(*                                                                         *)
(***************************************************************************)
EXTENDS Integers, Sequences, FiniteSets, TLC

VARIABLES root, currentPath, op, out, pre, uploads, heap, insts,
          connection, isConnecting, connectError, activeTab, isChatOpen,
          terminalLines, termCwd, fileList, fsPath, timers,
          messages, loading, confirmingId, clock, form, storage

sysVars == <<root, currentPath>>
instVars == <<heap, insts>>
appVars == <<connection, isConnecting, connectError, activeTab, isChatOpen,
             terminalLines, termCwd, fileList, fsPath, timers>>
chatVars == <<messages, loading, confirmingId>>
formVars == <<form, storage>>
uiVars == <<appVars, chatVars, formVars, clock>>
vars == <<root, currentPath, op, out, pre, uploads, heap, insts,
          connection, isConnecting, connectError, activeTab, isChatOpen,
          terminalLines, termCwd, fileList, fsPath, timers,
          messages, loading, confirmingId, clock, form, storage>>

(***************************************************************************)
(* Bounds                                                                  *)
(***************************************************************************)
MaxUploads == 2

MaxInstances == 2

(***************************************************************************)
(* Strings                                                                 *)
(***************************************************************************)
IsSpace(c) == c \in {" ", "\t", "\n"}

StartsWith(s, p) ==
    /\ Len(s) >= Len(p)
    /\ SubSeq(s, 1, Len(p)) = p

\* String.prototype.trim
RECURSIVE TrimLeft(_)
TrimLeft(s) ==
    IF s # <<>> /\ IsSpace(Head(s)) THEN TrimLeft(Tail(s)) ELSE s

RECURSIVE TrimRight(_)
TrimRight(s) ==
    IF s # <<>> /\ IsSpace(s[Len(s)]) THEN TrimRight(SubSeq(s, 1, Len(s) - 1)) ELSE s

Trim(s) == TrimRight(TrimLeft(s))

\* s.split(sep) for a one-character separator: the pieces between the
\* separators, empty pieces included.
RECURSIVE SplitOn(_, _, _)
SplitOn(s, sep, cur) ==
    IF s = <<>> THEN <<cur>>
    ELSE IF Head(s) = sep THEN <<cur>> \o SplitOn(Tail(s), sep, <<>>)
    ELSE SplitOn(Tail(s), sep, Append(cur, Head(s)))

Split(s, sep) == SplitOn(s, sep, <<>>)

\* s.split(/\s+/): a whole run of white space is one separator.
RECURSIVE SplitSpaces(_, _)
SplitSpaces(s, cur) ==
    IF s = <<>> THEN <<cur>>
    ELSE IF IsSpace(Head(s)) THEN <<cur>> \o SplitSpaces(TrimLeft(s), <<>>)
    ELSE SplitSpaces(Tail(s), Append(cur, Head(s)))

\* Array.prototype.join
RECURSIVE Join(_, _)
Join(parts, sep) ==
    IF parts = <<>> THEN <<>>
    ELSE IF Len(parts) = 1 THEN parts[1]
    ELSE parts[1] \o sep \o Join(Tail(parts), sep)

(***************************************************************************)
(* The seed tree                                                           *)
(***************************************************************************)
File(n, perm, own, sz, dt, text) ==
    [name |-> <<n>>, type |-> "file", permissions |-> perm, owner |-> own,
     size |-> sz, date |-> dt, content |-> <<text>>]

Dir(n, perm, own, sz, dt, kids) ==
    [name |-> <<n>>, type |-> "directory", permissions |-> perm, owner |-> own,
     size |-> sz, date |-> dt, children |-> kids]

initialFileSystem ==
    Dir("root", "drwxr-xr-x", "root", "4096", "Oct 25 10:00", <<
        Dir("home", "drwxr-xr-x", "root", "4096", "Oct 25 10:00", <<
            Dir("user", "drwxr-xr-x", "user", "4096", "Oct 25 10:01", <<
                Dir("documents", "drwxr-xr-x", "user", "4096", "Oct 26 14:30", <<
                    File("project_notes.txt", "-rw-r--r--", "user", "1.2k", "Oct 26 14:32",
                         "These are the notes for the secret project.\nStatus: Ongoing\nPriority: High"),
                    File("todo.md", "-rw-r--r--", "user", "340", "Oct 27 09:15",
                         "- [ ] Refactor backend\n- [ ] Fix CSS bugs\n- [x] Deploy to production")
                >>),
                File("config.json", "-rw-r--r--", "user", "512", "Oct 25 11:20",
                     "{\n  \"theme\": \"dark\",\n  \"notifications\": true,\n  \"version\": \"1.0.4\"\n}")
            >>)
        >>),
        Dir("var", "drwxr-xr-x", "root", "4096", "Oct 24 08:00", <<
            Dir("log", "drwxr-xr-x", "root", "4096", "Oct 24 08:00", <<
                File("syslog", "-rw-r-----", "syslog", "24M", "Oct 27 15:45",
                     "Oct 27 15:45:01 server CRON[1234]: (root) CMD (cd / && run-parts --report /etc/cron.hourly)")
            >>)
        >>),
        Dir("etc", "drwxr-xr-x", "root", "4096", "Oct 20 12:00", <<
            File("passwd", "-rw-r--r--", "root", "1024", "Oct 20 12:00",
                 "root:x:0:0:root:/root:/bin/bash\nuser:x:1000:1000:user,,,:/home/user:/bin/bash")
        >>)
    >>)

\* JSON.parse(JSON.stringify(node)): a structurally equal copy that shares
\* nothing with the template; values of the model are never shared.
cloneFS(node) == node

HomePath == << <<"home">>, <<"user">> >>

(***************************************************************************)
(* Tree lookup and path resolution                                         *)
(***************************************************************************)
HasChildren(node) == "children" \in DOMAIN node

\* Array.prototype.findIndex on the child names: the first match, 0 if none
\* (the code's -1).
RECURSIVE FindIndexFrom(_, _, _)
FindIndexFrom(kids, nm, i) ==
    IF i > Len(kids) THEN 0
    ELSE IF kids[i].name = nm THEN i
    ELSE FindIndexFrom(kids, nm, i + 1)

FindIndex(kids, nm) == FindIndexFrom(kids, nm, 1)

\* findNode: <<>> is the code's null, <<n>> the node found.
RECURSIVE FindFrom(_, _)
FindFrom(current, path) ==
    IF path = <<>> THEN <<current>>
    ELSE IF ~HasChildren(current) THEN <<>>
    ELSE LET i == FindIndex(current.children, Head(path))
         IN  IF i = 0 THEN <<>>
             ELSE FindFrom(current.children[i], Tail(path))

findNode(tree, path) == FindFrom(tree, path)

KeepSegment(p) == Len(p) > 0 /\ p # <<".">>

RECURSIVE WalkParts(_, _)
WalkParts(parts, targetPath) ==
    IF parts = <<>> THEN targetPath
    ELSE IF Head(parts) = <<".", ".">>
         THEN WalkParts(Tail(parts),
                        IF Len(targetPath) > 0
                        THEN SubSeq(targetPath, 1, Len(targetPath) - 1)
                        ELSE targetPath)
         ELSE WalkParts(Tail(parts), Append(targetPath, Head(parts)))


\* resolvePath as it would be if a leading slash were not looked at.
resolvePath_IgnoresAbsolute(tree, cwd, pathStr) ==
    LET parts      == SelectSeq(Split(pathStr, "/"), KeepSegment)
        targetPath == WalkParts(parts, cwd)
    IN  [node |-> findNode(tree, targetPath), parts |-> targetPath]

\* resolvePath as it would be if it returned the argument's own segments.
resolvePath_ReturnsSplitParts(tree, cwd, pathStr) ==
    LET isAbsolute == StartsWith(pathStr, <<"/">>)
        parts      == SelectSeq(Split(pathStr, "/"), KeepSegment)
        targetPath == WalkParts(parts, IF isAbsolute THEN <<>> ELSE cwd)
    IN  [node |-> findNode(tree, targetPath), parts |-> parts]

resolvePath(tree, cwd, pathStr) ==
    LET isAbsolute == StartsWith(pathStr, <<"/">>)
        parts      == SelectSeq(Split(pathStr, "/"), KeepSegment)
        targetPath == WalkParts(parts, IF isAbsolute THEN <<>> ELSE cwd)
    IN  [node |-> findNode(tree, targetPath), parts |-> targetPath]


\* getCurrentPathString as it would be with a slash put before each segment.
getCurrentPathString_SlashPerSegment(cwd) ==
    Join([i \in 1..Len(cwd) |-> <<"/">> \o cwd[i]], <<>>)

getCurrentPathString(cwd) == <<"/">> \o Join(cwd, <<"/">>)

(***************************************************************************)
(* The command interpreter                                                 *)
(***************************************************************************)
NoSuchFile == <<": No such file or directory">>

HelpText == <<"Available commands: ls, cd, pwd, cat, echo, whoami, help.\nThis is a simulated environment.">>

\* `${args[1]}` in a template: the text "undefined" when there is no argument.
ArgText(args) == IF Len(args) >= 2 THEN args[2] ELSE <<"undefined">>

\* args[1] is truthy: present and not the empty string.
HasArg(args) == Len(args) >= 2 /\ args[2] # <<>>

ChildNames(kids) == [i \in 1..Len(kids) |-> kids[i].name]

Result(text, tree, cwd) == [output |-> text, root |-> tree, currentPath |-> cwd]



\* A call that ends by throwing e instead of returning.
Thrown(e, tree, cwd) ==
    [output |-> <<>>, root |-> tree, currentPath |-> cwd, thrown |-> e]

\* ls as it would be without the test for a missing target: reading the
\* type of null throws.
ls_NoNullCheck(tree, cwd, args) ==
    LET target == IF HasArg(args) THEN resolvePath(tree, cwd, args[2]).node
                  ELSE findNode(tree, cwd)
    IN  IF target = <<>>
        THEN Thrown("TypeError", tree, cwd)
        ELSE IF target[1].type = "file" THEN Result(target[1].name, tree, cwd)
        ELSE IF HasChildren(target[1])
             THEN Result(Join(ChildNames(target[1].children), <<" ", " ">>), tree, cwd)
             ELSE Result(<<>>, tree, cwd)

\* ls as it would be with the child names joined by one space.
ls_SingleSpace(tree, cwd, args) ==
    LET target == IF HasArg(args) THEN resolvePath(tree, cwd, args[2]).node
                  ELSE findNode(tree, cwd)
    IN  IF target = <<>>
        THEN Result(<<"ls: cannot access '">> \o ArgText(args) \o <<"'">> \o NoSuchFile, tree, cwd)
        ELSE IF target[1].type = "file" THEN Result(target[1].name, tree, cwd)
        ELSE IF HasChildren(target[1])
             THEN Result(Join(ChildNames(target[1].children), <<" ">>), tree, cwd)
             ELSE Result(<<>>, tree, cwd)

ls(tree, cwd, args) ==
    LET target == IF HasArg(args) THEN resolvePath(tree, cwd, args[2]).node
                  ELSE findNode(tree, cwd)
    IN  IF target = <<>>
        THEN Result(<<"ls: cannot access '">> \o ArgText(args) \o <<"'">> \o NoSuchFile, tree, cwd)
        ELSE IF target[1].type = "file" THEN Result(target[1].name, tree, cwd)
        ELSE IF HasChildren(target[1])
             THEN Result(Join(ChildNames(target[1].children), <<" ", " ">>), tree, cwd)
             ELSE Result(<<>>, tree, cwd)

\* cd as it would be with the cursor assigned before the target is validated.
cd_AssignFirst(tree, cwd, args) ==
    IF ~HasArg(args) THEN Result(<<>>, tree, HomePath)
    ELSE LET r == resolvePath(tree, cwd, args[2])
         IN  IF r.node = <<>> \/ r.node[1].type # "directory"
             THEN Result(<<"cd: ">> \o args[2] \o NoSuchFile, tree, r.parts)
             ELSE Result(<<>>, tree, r.parts)

\* cd as it would be with the cursor set to the argument's own segments.
cd_RawSegments(tree, cwd, args) ==
    IF ~HasArg(args) THEN Result(<<>>, tree, HomePath)
    ELSE LET r == resolvePath(tree, cwd, args[2])
         IN  IF r.node = <<>> \/ r.node[1].type # "directory"
             THEN Result(<<"cd: ">> \o args[2] \o NoSuchFile, tree, cwd)
             ELSE Result(<<>>, tree,
                         (IF StartsWith(args[2], <<"/">>) THEN <<>> ELSE cwd)
                             \o SelectSeq(Split(args[2], "/"), KeepSegment))

\* cd as it would be with a bare cd treated as "stay here".
cd_BareStays(tree, cwd, args) ==
    IF ~HasArg(args) THEN Result(<<>>, tree, cwd)
    ELSE LET r == resolvePath(tree, cwd, args[2])
         IN  IF r.node = <<>> \/ r.node[1].type # "directory"
             THEN Result(<<"cd: ">> \o args[2] \o NoSuchFile, tree, cwd)
             ELSE Result(<<>>, tree, r.parts)

cd(tree, cwd, args) ==
    IF ~HasArg(args) THEN Result(<<>>, tree, HomePath)
    ELSE LET r == resolvePath(tree, cwd, args[2])
         IN  IF r.node = <<>> \/ r.node[1].type # "directory"
             THEN Result(<<"cd: ">> \o args[2] \o NoSuchFile, tree, cwd)
             ELSE Result(<<>>, tree, r.parts)


\* cat as it would be without the test for a directory.
cat_NoDirectoryCheck(tree, cwd, args) ==
    IF ~HasArg(args) THEN Result(<<"cat: missing operand">>, tree, cwd)
    ELSE LET r == resolvePath(tree, cwd, args[2])
         IN  IF r.node = <<>>
             THEN Result(<<"cat: ">> \o args[2] \o NoSuchFile, tree, cwd)
             ELSE IF "content" \in DOMAIN r.node[1]
                  THEN Result(r.node[1].content, tree, cwd)
                  ELSE Result(<<>>, tree, cwd)

cat(tree, cwd, args) ==
    IF ~HasArg(args) THEN Result(<<"cat: missing operand">>, tree, cwd)
    ELSE LET r == resolvePath(tree, cwd, args[2])
         IN  IF r.node = <<>>
             THEN Result(<<"cat: ">> \o args[2] \o NoSuchFile, tree, cwd)
             ELSE IF r.node[1].type = "directory"
             THEN Result(<<"cat: ">> \o args[2] \o <<": Is a directory">>, tree, cwd)
             ELSE IF "content" \in DOMAIN r.node[1]
                  THEN Result(r.node[1].content, tree, cwd)
                  ELSE Result(<<>>, tree, cwd)


\* tokenize as it would be without the trim.
tokenize_NoTrim(cmdStr) == SplitSpaces(cmdStr, <<>>)

\* cmdStr.trim().split(/\s+/)
tokenize(cmdStr) == SplitSpaces(Trim(cmdStr), <<>>)


LowerAtom(a) == IF a = "LS" THEN "ls" ELSE IF a = "CD" THEN "cd" ELSE a

\* executeCommand as it would be with the command name lower-cased first.
executeCommand_IgnoreCase(tree, cwd, cmdStr) ==
    LET args == tokenize(cmdStr)
        cmd  == [i \in 1..Len(args[1]) |-> LowerAtom(args[1][i])]
    IN  IF cmd = <<>> THEN Result(<<>>, tree, cwd)
        ELSE IF cmd = <<"ls">> THEN ls(tree, cwd, args)
        ELSE IF cmd = <<"cd">> THEN cd(tree, cwd, args)
        ELSE IF cmd = <<"pwd">> THEN Result(getCurrentPathString(cwd), tree, cwd)
        ELSE IF cmd = <<"cat">> THEN cat(tree, cwd, args)
        ELSE IF cmd = <<"echo">> THEN Result(Join(Tail(args), <<" ">>), tree, cwd)
        ELSE IF cmd = <<"whoami">> THEN Result(<<"user">>, tree, cwd)
        ELSE IF cmd = <<"help">> THEN Result(HelpText, tree, cwd)
        ELSE Result(cmd \o <<": command not found">>, tree, cwd)

executeCommand(tree, cwd, cmdStr) ==
    LET args == tokenize(cmdStr)
        cmd  == args[1]
    IN  IF cmd = <<>> THEN Result(<<>>, tree, cwd)
        ELSE IF cmd = <<"ls">> THEN ls(tree, cwd, args)
        ELSE IF cmd = <<"cd">> THEN cd(tree, cwd, args)
        ELSE IF cmd = <<"pwd">> THEN Result(getCurrentPathString(cwd), tree, cwd)
        ELSE IF cmd = <<"cat">> THEN cat(tree, cwd, args)
        ELSE IF cmd = <<"echo">> THEN Result(Join(Tail(args), <<" ">>), tree, cwd)
        ELSE IF cmd = <<"whoami">> THEN Result(<<"user">>, tree, cwd)
        ELSE IF cmd = <<"help">> THEN Result(HelpText, tree, cwd)
        ELSE Result(cmd \o <<": command not found">>, tree, cwd)

(***************************************************************************)
(* File manager methods                                                    *)
(***************************************************************************)
Truthy(p) == p # <<>>

\* listFiles as it would be if a path that is not found fell back to the
\* current directory.
listFiles_DefaultsToCwd(tree, cwd, pathStr) ==
    LET parts == IF pathStr = <<"/">> THEN <<>>
                 ELSE SelectSeq(Split(pathStr, "/"), Truthy)
        found == findNode(tree, parts)
        node  == IF found = <<>> THEN findNode(tree, cwd) ELSE found
    IN  IF node # <<>> /\ node[1].type = "directory" /\ HasChildren(node[1])
        THEN node[1].children
        ELSE <<>>

\* cwd is this.currentPath, which the method does not read.
listFiles(tree, cwd, pathStr) ==
    LET parts == IF pathStr = <<"/">> THEN <<>>
                 ELSE SelectSeq(Split(pathStr, "/"), Truthy)
        node  == findNode(tree, parts)
    IN  IF node # <<>> /\ node[1].type = "directory" /\ HasChildren(node[1])
        THEN node[1].children
        ELSE <<>>

\* The children of the target directory after the insertion: overwrite the
\* first child of that name, append when there is none.
\* InsertChild as it would be without the lookup of an existing child.
InsertChild_AlwaysAppend(kids, fileNode) == Append(kids, fileNode)

\* InsertChild as it would be if an existing child were removed and the new
\* node pushed at the end.
InsertChild_MoveToEnd(kids, fileNode) ==
    LET NotSameName(c) == c.name # fileNode.name
    IN  Append(SelectSeq(kids, NotSameName), fileNode)

InsertChild(kids, fileNode) ==
    LET existsIndex == FindIndex(kids, fileNode.name)
    IN  IF existsIndex >= 1
        THEN [kids EXCEPT ![existsIndex] = fileNode]
        ELSE Append(kids, fileNode)

SetChildren(node, kids) ==
    [k \in DOMAIN node \cup {"children"} |->
        IF k = "children" THEN kids ELSE node[k]]

\* The tree after the node that findNode reaches along path has had its
\* children updated in place.
RECURSIVE UpdateAt(_, _, _)
UpdateAt(current, path, fileNode) ==
    IF path = <<>>
    THEN SetChildren(current,
                     InsertChild(IF HasChildren(current) THEN current.children ELSE <<>>,
                                 fileNode))
    ELSE LET i == FindIndex(current.children, Head(path))
         IN  [current EXCEPT !.children[i] = UpdateAt(current.children[i], Tail(path), fileNode)]

\* addFile as it would be if it also moved the cursor to the target.
addFile_MovesCursor(tree, cwd, dirPath, fileNode) ==
    LET r == resolvePath(tree, cwd, dirPath)
    IN  IF r.node # <<>> /\ r.node[1].type = "directory"
        THEN [result |-> TRUE, root |-> UpdateAt(tree, r.parts, fileNode), currentPath |-> r.parts]
        ELSE [result |-> FALSE, root |-> tree, currentPath |-> cwd]

\* addFile as it would be if a missing target fell back to the root directory.
addFile_FallsBackToRoot(tree, cwd, dirPath, fileNode) ==
    LET r == resolvePath(tree, cwd, dirPath)
    IN  IF r.node # <<>> /\ r.node[1].type = "directory"
        THEN [result |-> TRUE, root |-> UpdateAt(tree, r.parts, fileNode), currentPath |-> cwd]
        ELSE IF r.node = <<>>
        THEN [result |-> TRUE, root |-> UpdateAt(tree, <<>>, fileNode), currentPath |-> cwd]
        ELSE [result |-> FALSE, root |-> tree, currentPath |-> cwd]

\* addFile as it would be without the test of the target's type.
addFile_NoTypeCheck(tree, cwd, dirPath, fileNode) ==
    LET r == resolvePath(tree, cwd, dirPath)
    IN  IF r.node # <<>>
        THEN [result |-> TRUE, root |-> UpdateAt(tree, r.parts, fileNode), currentPath |-> cwd]
        ELSE [result |-> FALSE, root |-> tree, currentPath |-> cwd]

addFile(tree, cwd, dirPath, fileNode) ==
    LET r == resolvePath(tree, cwd, dirPath)
    IN  IF r.node # <<>> /\ r.node[1].type = "directory"
        THEN [result |-> TRUE, root |-> UpdateAt(tree, r.parts, fileNode), currentPath |-> cwd]
        ELSE [result |-> FALSE, root |-> tree, currentPath |-> cwd]

(***************************************************************************)
(* The upload handler's node (src/App.tsx)                                 *)
(***************************************************************************)
Pow1024(i) == IF i = 0 THEN 1 ELSE IF i = 1 THEN 1024 ELSE 1048576

sizes == <<"B", "KB", "MB">>

formatBytes(bytes) ==
    IF bytes = 0 THEN "0 B"
    ELSE LET i      == IF bytes < 1024 THEN 0 ELSE IF bytes < 1048576 THEN 1 ELSE 2
             tenths == (20 * bytes + Pow1024(i)) \div (2 * Pow1024(i))
             whole  == tenths \div 10
             frac   == tenths % 10
         IN  ToString(whole)
               \o (IF frac = 0 THEN "" ELSE "." \o ToString(frac))
               \o sizes[i + 1]

\* newNode as it would be if the upload also carried an empty child list.
newNode_WithChildren(fileName, fileSize, now, username) ==
    [name |-> fileName, type |-> "file", size |-> formatBytes(fileSize), date |-> now,
     permissions |-> "-rw-r--r--",
     owner |-> IF username = "" THEN "user" ELSE username,
     content |-> <<"[Binary Content of ">> \o fileName \o <<"]">>,
     children |-> <<>>]

newNode(fileName, fileSize, now, username) ==
    [name |-> fileName, type |-> "file", size |-> formatBytes(fileSize), date |-> now,
     permissions |-> "-rw-r--r--",
     owner |-> IF username = "" THEN "user" ELSE username,
     content |-> <<"[Binary Content of ">> \o fileName \o <<"]">>]

(***************************************************************************)
(* Inputs                                                                  *)
(***************************************************************************)
\* A line built from its tokens, single spaces between them.
Line(tokens) == Join(tokens, <<" ">>)

PDocuments == <<"documents">>
PAbsDocuments == <<"/", "home", "/", "user", "/", "documents">>
PUp == <<".", ".">>
PUpUp == <<".", ".", "/", ".", ".">>
PRoot == <<"/">>
PDotted == <<".", "/", "documents", "/", ".", ".", "/", ".", ".">>
PSlashes == <<"/", "/", "home", "/", "/", "user", "/">>
PHomeUser == <<"home", "/", "user">>
PNope == <<"nope">>
PConfig == <<"config.json">>
PTodo == <<"todo.md">>
PAbsHome == <<"/", "home", "/", "user">>
PAbsConfig == <<"/", "home", "/", "user", "/", "config.json">>
PAbsNope == <<"/", "nope">>

CdPaths == {PDocuments, PAbsDocuments, PUp, PUpUp, PRoot, PDotted, PSlashes,
            PHomeUser, PNope, PConfig}

Lines ==
    {Line(<< <<"cd">>, p >>) : p \in CdPaths}
    \cup {Line(<< <<"ls">>, p >>) : p \in {PDocuments, PNope, PConfig}}
    \cup {Line(<< <<"cat">>, p >>) : p \in {PDocuments, PNope, PTodo}}
    \cup { <<"ls">>, <<"cd">>, <<"pwd">>, <<"cat">>, <<"whoami">>, <<"help">>,
           <<"echo", " ", " ", "a", "\t", "b">>,
           <<"nonexistentcmd">>, <<"LS">>, <<"cdx", " ", ".", ".">>,
           <<>>, <<" ", "\t">>, <<" ", "cd", " ", " ", ".", ".", " ">> }

UploadDirs == {PRoot, PAbsHome, PAbsConfig, PAbsNope}

UploadNames == { <<"home">>, <<"config.json">>, <<"report.pdf">> }

UploadSizes == {1536}

UploadDates == {"Nov 3 10:00"}

UploadNodes ==
    {newNode(n, sz, d, "user") : n \in UploadNames, sz \in UploadSizes, d \in UploadDates}

ListPaths == {PRoot, PAbsHome, PAbsConfig}

(***************************************************************************)
(* The App component (src/App.tsx) around the module's one MockSystem,     *)
(* with the file manager, the chat panel and the connection form.  null    *)
(* and undefined are <<>>, a present value v is <<v>>.  The id of a        *)
(* terminal line, a React key nothing reads, is left out.  termCwd is the  *)
(* component's cwd state.                                                  *)
(*                                                                         *)
(* A pending setTimeout is a record of what its callback closed over, and  *)
(* timers is the browser's timer queue.  A chat command is scheduled       *)
(* (100 ms) only while connected and a connect (1500 ms) only while        *)
(* disconnected and not connecting, so every pending chat timer is older   *)
(* and shorter than the pending connect timer: the queue fires in order.   *)
(***************************************************************************)
MaxTimers == 2

MaxAppUploads == 1

MaxTerminalLines == 7

\* The last value of Date.now() taken.
MaxClock == 2

\* The path shown in a prompt.
displayCwd(path) == IF path = <<"/", "home", "/", "user">> THEN <<"~">> ELSE path

\* String.prototype.startsWith('cd') on a line: its first atom is a word
\* that begins with cd.
startsWithCd(cmd) == cmd # <<>> /\ Head(cmd) \in {"cd", "cdx"}

InitialLines ==
    << [type |-> "system", content |-> <<"Connecting...">>, cwd |-> <<"~">>] >>

WelcomeLines(config) ==
    << [type |-> "system", content |-> <<"Authenticated to ", config.host, ".">>,
        cwd |-> <<"~">>],
       [type |-> "system",
        content |-> <<"Welcome to Ubuntu 22.04.3 LTS (GNU/Linux 5.15.0-91-generic x86_64)">>,
        cwd |-> <<"~">>],
       [type |-> "system",
        content |-> <<"\nDocumentation:  https://help.ubuntu.com\nManagement:     https://landscape.canonical.com\nSupport:        https://ubuntu.com/advantage\n">>,
        cwd |-> <<"~">>] >>

\* The state the App's handlers read and write: the component's state of
\* the latest render and the module-level mockSystem.
AppState ==
    [connection |-> connection, isConnecting |-> isConnecting,
     connectError |-> connectError, activeTab |-> activeTab,
     isChatOpen |-> isChatOpen, terminalLines |-> terminalLines, cwd |-> termCwd,
     fileList |-> fileList, fsPath |-> fsPath, timers |-> timers,
     root |-> root, currentPath |-> currentPath]

refreshFiles(a, path) ==
    [a EXCEPT !.fileList = listFiles(a.root, a.currentPath, path)]

handleConnect(a, config) ==
    [a EXCEPT !.isConnecting = TRUE,
              !.connectError = <<>>,
              !.timers = Append(@, [kind |-> "connect", config |-> config,
                                    fsPath |-> a.fsPath])]

\* The callback of handleConnect's setTimeout; fsPathSeen is the fsPath of
\* the render handleConnect was called in.
connectTimeout(a, config, fsPathSeen) ==
    IF config.authType = "password" /\ config.username = ""
    THEN [a EXCEPT !.connectError = <<"Invalid credentials.">>,
                   !.isConnecting = FALSE]
    ELSE refreshFiles([a EXCEPT !.connection = <<[config EXCEPT !.isConnected = TRUE]>>,
                                !.isConnecting = FALSE,
                                !.terminalLines = WelcomeLines(config)],
                      fsPathSeen)

handleDisconnect(a) ==
    [a EXCEPT !.connection = <<>>, !.terminalLines = <<>>, !.isChatOpen = FALSE]

\* App.executeCommand; cwdSeen is the cwd of the render this closure was
\* created in.
App_executeCommand(a, cmd, cwdSeen) ==
    LET newLine    == [type |-> "input", content |-> cmd, cwd |-> displayCwd(cwdSeen)]
        r          == executeCommand(a.root, a.currentPath, cmd)
        newCwdRaw  == getCurrentPathString(r.currentPath)
        outputLine == [type |-> "output", content |-> r.output,
                       cwd |-> displayCwd(newCwdRaw)]
        b          == [a EXCEPT !.root = r.root,
                                !.currentPath = r.currentPath,
                                !.terminalLines = @ \o <<newLine, outputLine>>,
                                !.cwd = displayCwd(newCwdRaw)]
    IN  IF startsWithCd(cmd)
        THEN refreshFiles([b EXCEPT !.fsPath = newCwdRaw], newCwdRaw)
        ELSE b

\* handleAICommand as it would be if it scheduled the command twice.
handleAICommand_SchedulesTwice(a, cmd) ==
    [a EXCEPT !.activeTab = "terminal",
              !.timers = @ \o << [kind |-> "ai", cmd |-> cmd, cwd |-> a.cwd],
                                 [kind |-> "ai", cmd |-> cmd, cwd |-> a.cwd] >>]

\* The timer's callback calls the executeCommand of the render
\* handleAICommand was called in, which closed over that render's cwd.
handleAICommand(a, cmd) ==
    [a EXCEPT !.activeTab = "terminal",
              !.timers = Append(@, [kind |-> "ai", cmd |-> cmd, cwd |-> a.cwd])]

handleNavigateFiles(a, newPath) ==
    refreshFiles([a EXCEPT !.fsPath = newPath], newPath)

handleUploadFile(a, file, date) ==
    LET node == newNode(file.name, file.size, date,
                        IF a.connection = <<>> THEN "" ELSE a.connection[1].username)
        r    == addFile(a.root, a.currentPath, a.fsPath, node)
        b    == [a EXCEPT !.root = r.root, !.currentPath = r.currentPath]
    IN  IF r.result
        THEN [refreshFiles(b, a.fsPath) EXCEPT
                 !.terminalLines =
                     Append(@, [type |-> "system",
                                content |-> <<"Uploaded ">> \o file.name
                                            \o <<" to ">> \o a.fsPath,
                                cwd |-> a.cwd])]
        ELSE b

(***************************************************************************)
(* The file manager (src/components/FileManager.tsx)                       *)
(***************************************************************************)
\* The path handleDoubleClick navigates to.
handleDoubleClick(path, file) ==
    IF path = <<"/">> THEN <<"/">> \o file.name ELSE path \o <<"/">> \o file.name

\* The path goUp navigates to.
goUp(path) ==
    LET segs       == Split(path, "/")
        parentPath == Join(SubSeq(segs, 1, Len(segs) - 1), <<"/">>)
    IN  IF parentPath = <<>> THEN <<"/">> ELSE parentPath

(***************************************************************************)
(* The chat panel (AIChat).  A message's text is held as the parts         *)
(* text.split(regex) gives: at the odd indices (from 0) the bodies of the  *)
(* fenced blocks, at the even indices the text around them.                *)
(***************************************************************************)
InitialMessages ==
    << [id |-> "init", role |-> "model", parts |-> << <<"Hello! I am your AI Linux Assistant">> >>] >>

uniqueId(msg, index) == <<msg.id, "-", ToString(index)>>

\* The indices of the parts rendered as command blocks.
CommandBlocks(msg) ==
    IF msg.role = "user" THEN {}
    ELSE {index \in 0..(Len(msg.parts) - 1) : index % 2 = 1}

BlockCmd(msg, index) == Trim(msg.parts[index + 1])

(***************************************************************************)
(* The connection form (ConnectionForm) and the localStorage entry         *)
(* webssh_saved_connections.  A JSON text is the sequence of its objects,  *)
(* each the sequence of its <<key, value>> members in insertion order.     *)
(***************************************************************************)
KeyOrder == <<"id", "label", "host", "username", "port", "authType", "password">>

JSONstringify(connections) ==
    [i \in 1..Len(connections) |->
        LET c       == connections[i]
            Has(k)  == k \in DOMAIN c
            keys    == SelectSeq(KeyOrder, Has)
        IN  [j \in 1..Len(keys) |-> <<keys[j], c[keys[j]]>>]]

JSONparse(text) ==
    [i \in 1..Len(text) |->
        [k \in {text[i][j][1] : j \in 1..Len(text[i])} |->
            LET j == CHOOSE n \in 1..Len(text[i]) : text[i][n][1] = k
            IN  text[i][j][2]]]

InitialForm ==
    [savedConnections |-> <<>>, selectedId |-> <<>>, label |-> "",
     host |-> "192.168.1.100", username |-> "user", port |-> 22,
     authType |-> "password", password |-> ""]

\* The form after mounting: the initial state, then the effect that loads
\* the saved connections.
mountForm(store) ==
    IF store = <<>> THEN InitialForm
    ELSE [InitialForm EXCEPT !.savedConnections = JSONparse(store[1])]

saveToStorage(f, connections) ==
    [form |-> [f EXCEPT !.savedConnections = connections],
     storage |-> <<JSONstringify(connections)>>]

\* newProfile as it would be if it kept the password.
newProfile_WithPassword(f, ms) ==
    [id |-> IF f.selectedId # <<>> THEN f.selectedId[1] ELSE ToString(ms),
     label |-> f.label, host |-> f.host, username |-> f.username,
     port |-> f.port, authType |-> f.authType, password |-> f.password]

\* ms is Date.now().
newProfile(f, ms) ==
    [id |-> IF f.selectedId # <<>> THEN f.selectedId[1] ELSE ToString(ms),
     label |-> f.label, host |-> f.host, username |-> f.username,
     port |-> f.port, authType |-> f.authType]

handleSaveProfile(f, store, ms) ==
    IF f.label = "" THEN [form |-> f, storage |-> store]
    ELSE LET p == newProfile(f, ms)
         IN  IF f.selectedId # <<>>
             THEN saveToStorage(f,
                      [i \in 1..Len(f.savedConnections) |->
                          IF f.savedConnections[i].id = f.selectedId[1]
                          THEN p ELSE f.savedConnections[i]])
             ELSE saveToStorage([f EXCEPT !.selectedId = <<p.id>>],
                                Append(f.savedConnections, p))

handleNewConnection(f) ==
    [f EXCEPT !.selectedId = <<>>, !.label = "", !.host = "192.168.1.100",
              !.username = "user", !.port = 22, !.authType = "password",
              !.password = ""]

handleDeleteProfile(f, id) ==
    LET Keep(c) == c.id # id
        s       == saveToStorage(f, SelectSeq(f.savedConnections, Keep))
    IN  IF f.selectedId = <<id>>
        THEN [s EXCEPT !.form = handleNewConnection(@)]
        ELSE s

handleLoadProfile(f, conn) ==
    [f EXCEPT !.selectedId = <<conn.id>>, !.label = conn.label, !.host = conn.host,
              !.username = conn.username, !.port = conn.port,
              !.authType = conn.authType, !.password = ""]

\* The state of the three components after the first render.
InitUI ==
    /\ connection = <<>>
    /\ isConnecting = FALSE
    /\ connectError = <<>>
    /\ activeTab = "terminal"
    /\ isChatOpen = FALSE
    /\ terminalLines = InitialLines
    /\ termCwd = <<"~">>
    /\ fileList = <<>>
    /\ fsPath = <<"/", "home", "/", "user">>
    /\ timers = <<>>
    /\ messages = InitialMessages
    /\ loading = FALSE
    /\ confirmingId = <<>>
    /\ clock = 0
    /\ storage = <<>>
    /\ form = mountForm(storage)

(***************************************************************************)
(* The state machine of one MockSystem instance.  op, out and pre record   *)
(* the last call, its return value and the state it was made in.           *)
(***************************************************************************)
State(tree, cwd) == [root |-> tree, currentPath |-> cwd]

Init ==
    /\ root = cloneFS(initialFileSystem)
    /\ currentPath = HomePath
    /\ op = [kind |-> "constructor"]
    /\ out = <<>>
    /\ pre = State(root, currentPath)
    /\ uploads = 0
    /\ heap = <<initialFileSystem>>
    /\ insts = <<>>
    /\ InitUI

ExecuteCommand(cmdStr) ==
    LET r == executeCommand(root, currentPath, cmdStr)
    IN  /\ root' = r.root
        /\ currentPath' = r.currentPath
        /\ op' = [kind |-> "executeCommand", cmdStr |-> cmdStr]
        /\ out' = r.output
        /\ pre' = State(root, currentPath)
        /\ UNCHANGED uploads
        /\ UNCHANGED instVars
        /\ UNCHANGED uiVars

AddFile(dirPath, fileNode) ==
    LET r == addFile(root, currentPath, dirPath, fileNode)
    IN  /\ uploads < MaxUploads
        /\ uploads' = uploads + 1
        /\ root' = r.root
        /\ currentPath' = r.currentPath
        /\ op' = [kind |-> "addFile", dirPath |-> dirPath, fileNode |-> fileNode]
        /\ out' = r.result
        /\ pre' = State(root, currentPath)
        /\ UNCHANGED instVars
        /\ UNCHANGED uiVars

ListFiles(pathStr) ==
    /\ op' = [kind |-> "listFiles", pathStr |-> pathStr]
    /\ out' = listFiles(root, currentPath, pathStr)
    /\ pre' = State(root, currentPath)
    /\ UNCHANGED <<root, currentPath, uploads>>
    /\ UNCHANGED instVars
    /\ UNCHANGED uiVars

GetCurrentPathString ==
    /\ op' = [kind |-> "getCurrentPathString"]
    /\ out' = getCurrentPathString(currentPath)
    /\ pre' = State(root, currentPath)
    /\ UNCHANGED <<root, currentPath, uploads>>
    /\ UNCHANGED instVars
    /\ UNCHANGED uiVars

Next ==
    \/ \E cmdStr \in Lines : ExecuteCommand(cmdStr)
    \/ \E dirPath \in UploadDirs, fileNode \in UploadNodes : AddFile(dirPath, fileNode)
    \/ \E pathStr \in ListPaths : ListFiles(pathStr)
    \/ GetCurrentPathString

Spec == Init /\ [][Next]_vars

(***************************************************************************)
(* Several MockSystem instances next to the seed template.  heap holds the *)
(* tree objects: heap[TemplateRef] is the module's initialFileSystem       *)
(* object, an instance's root is a reference into heap, and an in-place    *)
(* mutation of a tree is seen through every reference to it.               *)
(***************************************************************************)
TemplateRef == 1

\* cloneFS on the heap: a new object holding the copy.
cloneFSObject(h, ref) == [heap |-> Append(h, cloneFS(h[ref])), ref |-> Len(h) + 1]

\* The constructor as it would be with this.root = initialFileSystem.
newMockSystem_SharesTemplate(h) ==
    [heap |-> h, inst |-> [root |-> TemplateRef, currentPath |-> HomePath]]

newMockSystem(h) ==
    LET c == cloneFSObject(h, TemplateRef)
    IN  [heap |-> c.heap, inst |-> [root |-> c.ref, currentPath |-> HomePath]]

InstLines == { <<"cd", " ", ".", ".">>, <<"cd">> }

InstUploadDirs == {PRoot, PAbsHome}

InstUploadNodes ==
    {newNode(n, 1536, "Nov 3 10:00", "user") : n \in { <<"home">>, <<"report.pdf">> }}

Snapshot(h, is) == [heap |-> h, insts |-> is]

InitInstances ==
    /\ heap = <<initialFileSystem>>
    /\ insts = <<>>
    /\ root = cloneFS(initialFileSystem)
    /\ currentPath = HomePath
    /\ op = [kind |-> "none"]
    /\ out = <<>>
    /\ pre = Snapshot(heap, insts)
    /\ uploads = 0
    /\ InitUI

Construct ==
    LET n == newMockSystem(heap)
    IN  /\ Len(insts) < MaxInstances
        /\ heap' = n.heap
        /\ insts' = Append(insts, n.inst)
        /\ op' = [kind |-> "construct"]
        /\ out' = <<>>
        /\ pre' = Snapshot(heap, insts)
        /\ UNCHANGED <<root, currentPath, uploads>>
        /\ UNCHANGED uiVars

InstExecuteCommand(i, cmdStr) ==
    LET r == executeCommand(heap[insts[i].root], insts[i].currentPath, cmdStr)
    IN  /\ heap' = [heap EXCEPT ![insts[i].root] = r.root]
        /\ insts' = [insts EXCEPT ![i].currentPath = r.currentPath]
        /\ op' = [kind |-> "instExecuteCommand", inst |-> i, cmdStr |-> cmdStr]
        /\ out' = r.output
        /\ pre' = Snapshot(heap, insts)
        /\ UNCHANGED <<root, currentPath, uploads>>
        /\ UNCHANGED uiVars

InstAddFile(i, dirPath, fileNode) ==
    LET r == addFile(heap[insts[i].root], insts[i].currentPath, dirPath, fileNode)
    IN  /\ uploads < MaxUploads
        /\ uploads' = uploads + 1
        /\ heap' = [heap EXCEPT ![insts[i].root] = r.root]
        /\ insts' = [insts EXCEPT ![i].currentPath = r.currentPath]
        /\ op' = [kind |-> "instAddFile", inst |-> i, dirPath |-> dirPath, fileNode |-> fileNode]
        /\ out' = r.result
        /\ pre' = Snapshot(heap, insts)
        /\ UNCHANGED <<root, currentPath>>
        /\ UNCHANGED uiVars

NextInstances ==
    \/ Construct
    \/ \E i \in 1..Len(insts) : \E cmdStr \in InstLines : InstExecuteCommand(i, cmdStr)
    \/ \E i \in 1..Len(insts) : \E dirPath \in InstUploadDirs, fileNode \in InstUploadNodes :
          InstAddFile(i, dirPath, fileNode)

SpecInstances == InitInstances /\ [][NextInstances]_vars

(***************************************************************************)
(* The state machine of the App: the user's clicks and key presses on the  *)
(* rendered components and the two kinds of timer callback.                *)
(***************************************************************************)
Connected == connection # <<>> /\ connection[1].isConnected

\* What the connection form submits: host, port and user name are required
\* fields.
Configs ==
    { [host |-> "192.168.1.100", username |-> "user", port |-> 22,
       authType |-> "password", isConnected |-> FALSE] }

\* What the user types in the terminal.
AppLines == { <<" ", "cd", " ", "documents">> }

AppFiles == { [name |-> <<"report.pdf">>, size |-> 1536] }

\* The entries of a listing the user opens.
NavNames == { <<"documents">> }

ChatInput == <<"how do I see my documents?">>

\* What sendChatMessage settles with: a reply holding two fenced commands,
\* or a rejection.
Outcomes ==
    { [ok |-> TRUE,
       parts |-> << <<"Go there:">>, <<"cd", " ", "documents", "\n">>,
                    <<"and look:">>, <<" ", "pwd", "\n">>, <<>> >>],
      [ok |-> FALSE] }

SetApp(a) ==
    /\ connection' = a.connection
    /\ isConnecting' = a.isConnecting
    /\ connectError' = a.connectError
    /\ activeTab' = a.activeTab
    /\ isChatOpen' = a.isChatOpen
    /\ terminalLines' = a.terminalLines
    /\ termCwd' = a.cwd
    /\ fileList' = a.fileList
    /\ fsPath' = a.fsPath
    /\ timers' = a.timers
    /\ root' = a.root
    /\ currentPath' = a.currentPath

\* The last step, and the cursor and connection it started from.
AppStep(step) ==
    /\ op' = step
    /\ out' = <<>>
    /\ pre' = [currentPath |-> currentPath, connection |-> connection]
    /\ UNCHANGED <<instVars, formVars>>

\* The form's submit button: App shows the form while not connected, and the
\* button is disabled while connecting.
HandleConnect(config) ==
    /\ ~Connected
    /\ ~isConnecting
    /\ Len(timers) < MaxTimers
    /\ SetApp(handleConnect(AppState, config))
    /\ AppStep([kind |-> "handleConnect"])
    /\ UNCHANGED <<chatVars, clock, uploads>>

ConnectTimeout ==
    /\ timers # <<>>
    /\ Head(timers).kind = "connect"
    /\ SetApp(connectTimeout([AppState EXCEPT !.timers = Tail(@)],
                             Head(timers).config, Head(timers).fsPath))
    /\ AppStep([kind |-> "connectTimeout"])
    /\ UNCHANGED <<chatVars, clock, uploads>>

\* The chat panel is unmounted with the connected view, which drops its
\* state.
HandleDisconnect ==
    /\ Connected
    /\ SetApp(handleDisconnect(AppState))
    /\ messages' = InitialMessages
    /\ loading' = FALSE
    /\ confirmingId' = <<>>
    /\ AppStep([kind |-> "handleDisconnect"])
    /\ UNCHANGED <<clock, uploads>>

\* Enter in the terminal.
TerminalCommand(cmd) ==
    /\ Connected
    /\ activeTab = "terminal"
    /\ Len(terminalLines) + 2 <= MaxTerminalLines
    /\ SetApp(App_executeCommand(AppState, cmd, termCwd))
    /\ AppStep([kind |-> "App.executeCommand", cmd |-> cmd, via |-> "terminal"])
    /\ UNCHANGED <<chatVars, clock, uploads>>

AICommandTimeout ==
    /\ timers # <<>>
    /\ Head(timers).kind = "ai"
    /\ Len(terminalLines) + 2 <= MaxTerminalLines
    /\ SetApp(App_executeCommand([AppState EXCEPT !.timers = Tail(@)],
                                 Head(timers).cmd, Head(timers).cwd))
    /\ AppStep([kind |-> "App.executeCommand", cmd |-> Head(timers).cmd, via |-> "chat"])
    /\ UNCHANGED <<chatVars, clock, uploads>>

FileDoubleClick(i) ==
    /\ Connected
    /\ activeTab = "files"
    /\ fileList[i].name \in NavNames
    /\ fileList[i].type = "directory"
    /\ SetApp(handleNavigateFiles(AppState, handleDoubleClick(fsPath, fileList[i])))
    /\ AppStep([kind |-> "handleNavigateFiles"])
    /\ UNCHANGED <<chatVars, clock, uploads>>

GoUp ==
    /\ Connected
    /\ activeTab = "files"
    /\ fsPath # <<"/">>
    /\ SetApp(handleNavigateFiles(AppState, goUp(fsPath)))
    /\ AppStep([kind |-> "handleNavigateFiles"])
    /\ UNCHANGED <<chatVars, clock, uploads>>

Refresh ==
    /\ Connected
    /\ activeTab = "files"
    /\ SetApp(refreshFiles(AppState, fsPath))
    /\ AppStep([kind |-> "onRefresh"])
    /\ UNCHANGED <<chatVars, clock, uploads>>

Upload(file, date) ==
    /\ Connected
    /\ activeTab = "files"
    /\ uploads < MaxAppUploads
    /\ Len(terminalLines) + 1 <= MaxTerminalLines
    /\ uploads' = uploads + 1
    /\ SetApp(handleUploadFile(AppState, file, date))
    /\ AppStep([kind |-> "handleUploadFile", file |-> file])
    /\ UNCHANGED <<chatVars, clock>>

\* The sidebar's button of the tab that is not shown.
SetActiveTab(tab) ==
    /\ Connected
    /\ tab # activeTab
    /\ SetApp([AppState EXCEPT !.activeTab = tab])
    /\ AppStep([kind |-> "setActiveTab"])
    /\ UNCHANGED <<chatVars, clock, uploads>>

\* The sidebar's chat button, and the panel's close button while it is open.
ToggleChat ==
    /\ Connected
    /\ SetApp([AppState EXCEPT !.isChatOpen = ~isChatOpen])
    /\ AppStep([kind |-> "setIsChatOpen"])
    /\ UNCHANGED <<chatVars, clock, uploads>>

\* handleSend up to its await.
HandleSend ==
    /\ Connected
    /\ isChatOpen
    /\ ~loading
    /\ clock + 2 <= MaxClock
    /\ clock' = clock + 1
    /\ messages' = Append(messages, [id |-> ToString(clock'), role |-> "user",
                                     parts |-> <<ChatInput>>])
    /\ loading' = TRUE
    /\ UNCHANGED confirmingId
    /\ AppStep([kind |-> "handleSend"])
    /\ UNCHANGED <<appVars, sysVars, uploads>>

\* handleSend from its await on.
SendSettles(outcome) ==
    /\ Connected
    /\ loading
    /\ clock' = clock + 1
    /\ messages' = Append(messages,
                       IF outcome.ok
                       THEN [id |-> ToString(clock' + 1), role |-> "model",
                             parts |-> outcome.parts]
                       ELSE [id |-> ToString(clock'), role |-> "model",
                             parts |-> << <<"I encountered an error connecting to the AI service.">> >>])
    /\ loading' = FALSE
    /\ UNCHANGED confirmingId
    /\ AppStep([kind |-> "sendSettles"])
    /\ UNCHANGED <<appVars, sysVars, uploads>>

\* The Run button of a command block, shown while the block is not the one
\* being confirmed.
RunClick(m, index) ==
    /\ Connected
    /\ isChatOpen
    /\ confirmingId # <<uniqueId(messages[m], index)>>
    /\ confirmingId' = <<uniqueId(messages[m], index)>>
    /\ AppStep([kind |-> "run", id |-> uniqueId(messages[m], index)])
    /\ UNCHANGED <<messages, loading, appVars, sysVars, clock, uploads>>

\* The Cancel button, shown on the block being confirmed.
CancelClick(m, index) ==
    /\ Connected
    /\ isChatOpen
    /\ confirmingId = <<uniqueId(messages[m], index)>>
    /\ confirmingId' = <<>>
    /\ AppStep([kind |-> "cancel", id |-> uniqueId(messages[m], index)])
    /\ UNCHANGED <<messages, loading, appVars, sysVars, clock, uploads>>

\* The Confirm button, shown on the block being confirmed.
ConfirmClick(m, index) ==
    /\ Connected
    /\ isChatOpen
    /\ confirmingId = <<uniqueId(messages[m], index)>>
    /\ Len(timers) < MaxTimers
    /\ SetApp(handleAICommand(AppState, BlockCmd(messages[m], index)))
    /\ confirmingId' = <<>>
    /\ AppStep([kind |-> "confirm", id |-> uniqueId(messages[m], index),
                cmd |-> BlockCmd(messages[m], index)])
    /\ UNCHANGED <<messages, loading, clock, uploads>>

NextApp ==
    \/ \E config \in Configs : HandleConnect(config)
    \/ ConnectTimeout
    \/ HandleDisconnect
    \/ \E cmd \in AppLines : TerminalCommand(cmd)
    \/ AICommandTimeout
    \/ \E i \in 1..Len(fileList) : FileDoubleClick(i)
    \/ GoUp
    \/ Refresh
    \/ \E file \in AppFiles, date \in UploadDates : Upload(file, date)
    \/ \E tab \in {"terminal", "files"} : SetActiveTab(tab)
    \/ ToggleChat
    \/ HandleSend
    \/ \E outcome \in Outcomes : SendSettles(outcome)
    \/ \E m \in 1..Len(messages) : \E index \in CommandBlocks(messages[m]) : RunClick(m, index)
    \/ \E m \in 1..Len(messages) : \E index \in CommandBlocks(messages[m]) : CancelClick(m, index)
    \/ \E m \in 1..Len(messages) : \E index \in CommandBlocks(messages[m]) : ConfirmClick(m, index)

SpecApp == Init /\ [][NextApp]_vars

\* The sessions, the terminal and the chat panel, without the file manager's
\* buttons.
NextChat ==
    \/ \E config \in Configs : HandleConnect(config)
    \/ ConnectTimeout
    \/ HandleDisconnect
    \/ \E cmd \in AppLines : TerminalCommand(cmd)
    \/ AICommandTimeout
    \/ \E tab \in {"terminal", "files"} : SetActiveTab(tab)
    \/ ToggleChat
    \/ HandleSend
    \/ \E outcome \in Outcomes : SendSettles(outcome)
    \/ \E m \in 1..Len(messages) : \E index \in CommandBlocks(messages[m]) : RunClick(m, index)
    \/ \E m \in 1..Len(messages) : \E index \in CommandBlocks(messages[m]) : CancelClick(m, index)
    \/ \E m \in 1..Len(messages) : \E index \in CommandBlocks(messages[m]) : ConfirmClick(m, index)

SpecChat == Init /\ [][NextChat]_vars

(***************************************************************************)
(* The state machine of the connection form while it is shown.             *)
(***************************************************************************)
\* What the user types or picks in the form's fields.
FormInputs ==
    { <<"label", "prod">>, <<"label", "">>, <<"username", "root">>,
      <<"authType", "key">>, <<"authType", "password">>,
      <<"password", "hunter2">>, <<"password", "">> }

FormStep(step) ==
    /\ op' = step
    /\ out' = <<>>
    /\ pre' = [form |-> form, storage |-> storage]
    /\ UNCHANGED <<sysVars, uploads, instVars, appVars, chatVars>>

\* The onChange handlers of the fields.
Edit(field, value) ==
    /\ form' = [form EXCEPT ![field] = value]
    /\ FormStep([kind |-> "edit", field |-> field])
    /\ UNCHANGED <<storage, clock>>

\* Date.now() names a new profile; the clock has moved on since the last
\* one was named.
HandleSaveProfile ==
    LET fresh == form.selectedId = <<>> /\ form.label # ""
        s     == handleSaveProfile(form, storage, clock + 1)
    IN  /\ fresh => clock < MaxClock
        /\ clock' = IF fresh THEN clock + 1 ELSE clock
        /\ form' = s.form
        /\ storage' = s.storage
        /\ FormStep([kind |-> "handleSaveProfile"])

HandleDeleteProfile(i) ==
    LET s == handleDeleteProfile(form, form.savedConnections[i].id)
    IN  /\ form' = s.form
        /\ storage' = s.storage
        /\ FormStep([kind |-> "handleDeleteProfile"])
        /\ UNCHANGED clock

HandleLoadProfile(i) ==
    /\ form' = handleLoadProfile(form, form.savedConnections[i])
    /\ FormStep([kind |-> "handleLoadProfile"])
    /\ UNCHANGED <<storage, clock>>

HandleNewConnection ==
    /\ form' = handleNewConnection(form)
    /\ FormStep([kind |-> "handleNewConnection"])
    /\ UNCHANGED <<storage, clock>>

\* The form is shown again after a session or a reload.
MountForm ==
    /\ form' = mountForm(storage)
    /\ FormStep([kind |-> "mount"])
    /\ UNCHANGED <<storage, clock>>

NextForm ==
    \/ \E input \in FormInputs : Edit(input[1], input[2])
    \/ HandleSaveProfile
    \/ \E i \in 1..Len(form.savedConnections) : HandleDeleteProfile(i)
    \/ \E i \in 1..Len(form.savedConnections) : HandleLoadProfile(i)
    \/ HandleNewConnection
    \/ MountForm

SpecForm == Init /\ [][NextForm]_vars

(***************************************************************************)
(* Properties                                                              *)
(***************************************************************************)
IsExec == op.kind = "executeCommand"

IsAddFile == op.kind = "addFile"

\* The tokens of the last executed line.
Args == tokenize(op.cmdStr)

\* What the target of the last call denoted in the state the call was made in.
PreResolved(pathStr) == resolvePath(pre.root, pre.currentPath, pathStr)

Absent(r) == r.node = <<>>

IsFileNode(r) == r.node # <<>> /\ r.node[1].type = "file"

IsDirNode(r) == r.node # <<>> /\ r.node[1].type = "directory"

\* The texts executeCommand returns for path-not-found, type-mismatch,
\* missing-operand and unknown-command.
IsErrorMessage(text) ==
    /\ text # <<>>
    /\ \/ text[Len(text)] \in {": No such file or directory", ": Is a directory",
                               "cat: missing operand", ": command not found"}

Unchanged == root = pre.root /\ currentPath = pre.currentPath

\* C1: an executeCommand that returns an error message leaves the tree and
\* the cursor as they were; cd P with P absent or a file returns
\* "cd: P: No such file or directory" and leaves the cursor unchanged.
C1_ErrorLeavesStateUnchanged ==
    IsExec =>
        /\ IsErrorMessage(out) => Unchanged
        /\ (Args[1] = <<"cd">> /\ HasArg(Args)
              /\ (Absent(PreResolved(Args[2])) \/ IsFileNode(PreResolved(Args[2]))))
            => /\ out = <<"cd: ">> \o Args[2] \o <<": No such file or directory">>
               /\ currentPath = pre.currentPath

\* A cd onto the file config.json from /home/user/documents/.. has failed.
C1_Witness ==
    /\ IsExec
    /\ op.cmdStr = <<"cd", " ", "config.json">>
    /\ pre.currentPath = << <<"home">>, <<"user">> >>
    /\ IsFileNode(PreResolved(<<"config.json">>))
    /\ out = <<"cd: ", "config.json", ": No such file or directory">>

CleanSegment(seg) == seg # <<>> /\ seg # <<".">> /\ seg # <<".", ".">>

\* C2: cd P with P a directory returns the empty string and sets the cursor
\* to the resolved absolute segments, none of them empty, "." or "..", so
\* that pwd then prints "/" and the segments joined by "/".
C2_CdSetsCursor ==
    (IsExec /\ Args[1] = <<"cd">> /\ HasArg(Args) /\ IsDirNode(PreResolved(Args[2])))
    => /\ out = <<>>
       /\ currentPath = PreResolved(Args[2]).parts
       /\ \A i \in 1..Len(currentPath) : CleanSegment(currentPath[i])
       /\ findNode(root, currentPath) = PreResolved(Args[2]).node
       /\ executeCommand(root, currentPath, <<"pwd">>).output
            = <<"/">> \o Join(currentPath, <<"/">>)

\* cd ./documents/../.. from /home/user has moved the cursor to /home.
C2_Witness ==
    /\ IsExec
    /\ op.cmdStr = <<"cd", " ", ".", "/", "documents", "/", ".", ".", "/", ".", ".">>
    /\ pre.currentPath = << <<"home">>, <<"user">> >>
    /\ out = <<>>
    /\ currentPath = << <<"home">> >>
    /\ executeCommand(root, currentPath, <<"pwd">>).output = <<"/", "home">>

Parent(path) == SubSeq(path, 1, Len(path) - 1)

\* C3: every cd .. made below root moves the cursor one segment up, so that
\* repeating it reaches root, and cd .. at root leaves the cursor at root.
C3_CdUpReachesRoot ==
    (IsExec /\ Args = << <<"cd">>, <<".", ".">> >>)
    => IF pre.currentPath = <<>>
       THEN currentPath = <<>> /\ out = <<>>
       ELSE currentPath = Parent(pre.currentPath) /\ out = <<>>

\* C4: cd with no argument sets the cursor to home/user and returns the
\* empty string, whatever the cursor was.
C4_BareCdGoesHome ==
    (IsExec /\ Args = << <<"cd">> >>)
    => /\ currentPath = << <<"home">>, <<"user">> >>
       /\ out = <<>>
       /\ root = pre.root

\* A bare cd has brought the cursor back from root.
C4_Witness ==
    /\ IsExec
    /\ op.cmdStr = <<"cd">>
    /\ pre.currentPath = <<>>
    /\ currentPath = << <<"home">>, <<"user">> >>

\* C5: the cursor is changed only by a successful cd: a call after which the
\* cursor differs is an executeCommand of cd that returned the empty string.
C5_OnlyCdMovesCursor ==
    currentPath # pre.currentPath
    => /\ IsExec
       /\ Args[1] = <<"cd">>
       /\ out = <<>>

\* An upload into the root directory has succeeded with the cursor elsewhere
\* and left it there.
C5_Witness ==
    /\ IsAddFile
    /\ out = TRUE
    /\ op.dirPath = <<"/">>
    /\ root # pre.root
    /\ pre.currentPath = << <<"home">>, <<"user">>, <<"documents">> >>
    /\ currentPath = pre.currentPath

NonChildKeys(node) == DOMAIN node \ {"children"}

SameButChildren(old, new) ==
    /\ NonChildKeys(old) = NonChildKeys(new)
    /\ \A k \in NonChildKeys(old) : old[k] = new[k]

\* new is old except for the children sequence of the directory that path
\* leads to from old.
RECURSIVE OnlyChildrenDifferAt(_, _, _)
OnlyChildrenDifferAt(old, new, path) ==
    /\ SameButChildren(old, new)
    /\ path # <<>> =>
        /\ HasChildren(old) /\ HasChildren(new)
        /\ Len(new.children) = Len(old.children)
        /\ \E i \in 1..Len(old.children) :
            /\ old.children[i].name = Head(path)
            /\ \A j \in 1..(i - 1) : old.children[j].name # Head(path)
            /\ \A j \in 1..Len(old.children) : j # i => new.children[j] = old.children[j]
            /\ OnlyChildrenDifferAt(old.children[i], new.children[i], Tail(path))

\* C6: the tree is changed only by a successful addFile, which changes only
\* the children of the directory its path resolved to, a directory that
\* existed before the call; executeCommand and listFiles leave the tree as
\* it was.
C6_OnlyAddFileChangesTree ==
    root # pre.root
    => /\ IsAddFile
       /\ out = TRUE
       /\ IsDirNode(PreResolved(op.dirPath))
       /\ OnlyChildrenDifferAt(pre.root, root, PreResolved(op.dirPath).parts)

\* An upload into /home/user has changed that directory and nothing else.
C6_Witness ==
    /\ IsAddFile
    /\ op.dirPath = <<"/", "home", "/", "user">>
    /\ root # pre.root
    /\ root.children[2] = pre.root.children[2]
    /\ root.children[3] = pre.root.children[3]
    /\ findNode(root, << <<"home">>, <<"user">> >>) # findNode(pre.root, << <<"home">>, <<"user">> >>)

\* The children of the directory the last addFile resolved to, before and
\* after the call.
OldKids == PreResolved(op.dirPath).node[1].children

NewKids == findNode(root, PreResolved(op.dirPath).parts)[1].children

Collides(kids, node) == \E i \in 1..Len(kids) : kids[i].name = node.name

\* C7: a successful addFile returns true; when a child of the node's name
\* exists it is replaced at its index, the count and the other siblings stay;
\* otherwise the node is appended as the last child.
C7_AddFileReplacesOrAppends ==
    (IsAddFile /\ IsDirNode(PreResolved(op.dirPath)))
    => /\ out = TRUE
       /\ IF Collides(OldKids, op.fileNode)
          THEN /\ Len(NewKids) = Len(OldKids)
               /\ \A i \in 1..Len(OldKids) :
                    NewKids[i] = IF OldKids[i].name = op.fileNode.name
                                 THEN op.fileNode
                                 ELSE OldKids[i]
          ELSE /\ Len(NewKids) = Len(OldKids) + 1
               /\ NewKids[Len(NewKids)] = op.fileNode
               /\ \A i \in 1..Len(OldKids) : NewKids[i] = OldKids[i]

\* An upload named home has replaced the first of the root's children, after
\* an earlier upload was appended as the fourth.
C7_Witness ==
    /\ IsAddFile
    /\ out = TRUE
    /\ op.dirPath = <<"/">>
    /\ op.fileNode.name = <<"home">>
    /\ pre.root.children[1].type = "directory"
    /\ Len(root.children) = 4
    /\ root.children[1] = op.fileNode
    /\ root.children[4].name = <<"report.pdf">>

\* C8: addFile whose path resolves to no node or to a file returns false and
\* leaves the tree and the cursor as they were.
C8_AddFileFailureNoMutation ==
    (IsAddFile /\ (Absent(PreResolved(op.dirPath)) \/ IsFileNode(PreResolved(op.dirPath))))
    => /\ out = FALSE
       /\ root = pre.root
       /\ currentPath = pre.currentPath

\* An upload into the file /home/user/config.json has been refused.
C8_Witness ==
    /\ IsAddFile
    /\ op.dirPath = <<"/", "home", "/", "user", "/", "config.json">>
    /\ IsFileNode(PreResolved(op.dirPath))
    /\ out = FALSE

RECURSIVE UniqueSiblingNames(_)
UniqueSiblingNames(node) ==
    HasChildren(node) =>
        /\ \A i, j \in 1..Len(node.children) :
              i # j => node.children[i].name # node.children[j].name
        /\ \A i \in 1..Len(node.children) : UniqueSiblingNames(node.children[i])

\* C9: no directory of the tree has two children with the same name.
C9_SiblingNamesUnique == UniqueSiblingNames(root)

\* An upload named config.json has met the child of that name in /home/user.
C9_Witness ==
    /\ IsAddFile
    /\ out = TRUE
    /\ op.dirPath = <<"/", "home", "/", "user">>
    /\ op.fileNode.name = <<"config.json">>
    /\ Collides(OldKids, op.fileNode)
    /\ Len(NewKids) = 2

RECURSIVE KindMatchesFields(_)
KindMatchesFields(node) ==
    /\ node.type = "file" => ~HasChildren(node)
    /\ node.type = "directory" => "content" \notin DOMAIN node
    /\ HasChildren(node) =>
         \A i \in 1..Len(node.children) : KindMatchesFields(node.children[i])

\* C10: every file node has no children and every directory node has no
\* content, uploaded and overwritten nodes included.
C10_KindMatchesFields == KindMatchesFields(root)

\* An uploaded file stands in the place of the directory /home.
C10_Witness ==
    /\ root.children[1].name = <<"home">>
    /\ root.children[1].type = "file"
    /\ root.children[1].content = <<"[Binary Content of ", "home", "]">>
    /\ Len(root.children) = 3

\* Absolute and relative path strings and cursor values to resolve with.
AbsProbes ==
    { <<"/">>, <<"/", "home", "/", "user">>, <<"/", "/", "home", "/", "/", "user", "/">>,
      <<"/", "home", "/", "user", "/", "documents">>,
      <<"/", "home", "/", "user", "/", "config.json">>,
      <<"/", "home", "/", ".", ".", "/", "var", "/", ".", "/", "log">>,
      <<"/", ".", ".">>, <<"/", "nope">> }

RelProbes ==
    { <<"documents">>, <<".", ".">>, <<".", ".", "/", ".", ".">>, <<".">>,
      <<".", "/", "documents", "/", ".", ".", "/", ".", ".">>,
      <<"home", "/", "user">>, <<"config.json">>, <<"nope", "/", ".", ".">>,
      <<"documents", "/", "/", "todo.md">>, <<"log", "/">> }

ProbeCursors ==
    { <<>>, << <<"home">> >>, << <<"home">>, <<"user">> >>,
      << <<"home">>, <<"user">>, <<"documents">> >>,
      << <<"var">>, <<"log">> >>, << <<"etc">> >> }

\* C11: an absolute path that references an existing node resolves to the
\* same node and the same segment list whatever the cursor is.
C11_AbsoluteIgnoresCursor ==
    \A P \in AbsProbes : \A c \in ProbeCursors :
        resolvePath(root, currentPath, P).node # <<>>
        => resolvePath(root, c, P) = resolvePath(root, currentPath, P)

\* cd //home//user/ has been resolved from /home/user/documents.
C11_Witness ==
    /\ IsExec
    /\ op.cmdStr = <<"cd", " ", "/", "/", "home", "/", "/", "user", "/">>
    /\ pre.currentPath = << <<"home">>, <<"user">>, <<"documents">> >>
    /\ out = <<>>
    /\ currentPath = << <<"home">>, <<"user">> >>

\* C12: resolving a relative path from the cursor and then resolving "/"
\* followed by the returned segments joined by "/" gives the same node, or
\* absent both times, and the same segments.
C12_ReResolveAbsolute ==
    \A R \in RelProbes : \A c \in ProbeCursors \cup {currentPath} :
        LET first  == resolvePath(root, currentPath, R)
            second == resolvePath(root, c, <<"/">> \o Join(first.parts, <<"/">>))
        IN  /\ second.node = first.node
            /\ second.parts = first.parts

\* cd ../.. has been resolved from /home/user/documents to /home.
C12_Witness ==
    /\ IsExec
    /\ op.cmdStr = <<"cd", " ", ".", ".", "/", ".", ".">>
    /\ pre.currentPath = << <<"home">>, <<"user">>, <<"documents">> >>
    /\ currentPath = << <<"home">> >>
    /\ resolvePath(root, pre.currentPath, <<"/", "home">>).node = findNode(root, currentPath)

\* The node the last ls was about, in the state the call was made in.
LsTarget ==
    IF HasArg(Args) THEN PreResolved(Args[2]).node
    ELSE findNode(pre.root, pre.currentPath)

\* The names of kids in order, two spaces between neighbours.
RECURSIVE NamesList(_)
NamesList(kids) ==
    IF kids = <<>> THEN <<>>
    ELSE IF Len(kids) = 1 THEN kids[1].name
    ELSE kids[1].name \o <<" ", " ">> \o NamesList(Tail(kids))

\* C13: ls of an absent node returns the cannot-access message, ls of a file
\* its name, ls of a directory its child names in child order joined by two
\* spaces (the empty string when it has no child); without an argument the
\* node is the current directory.
C13_LsOutput ==
    (IsExec /\ Args[1] = <<"ls">>)
    => /\ Unchanged
       /\ IF LsTarget = <<>>
          THEN out = <<"ls: cannot access '">>
                       \o (IF HasArg(Args) THEN Args[2] ELSE <<"undefined">>)
                       \o <<"'", ": No such file or directory">>
          ELSE IF LsTarget[1].type = "file"
          THEN out = LsTarget[1].name
          ELSE out = NamesList(IF HasChildren(LsTarget[1]) THEN LsTarget[1].children ELSE <<>>)

\* ls documents from /home/user has listed the two seed files in order.
C13_Witness ==
    /\ IsExec
    /\ op.cmdStr = <<"ls", " ", "documents">>
    /\ pre.currentPath = << <<"home">>, <<"user">> >>
    /\ out = <<"project_notes.txt", " ", " ", "todo.md">>

\* C14: cat without an argument returns "cat: missing operand"; cat P
\* returns the no-such-file message for an absent P, the is-a-directory
\* message for a directory and the content for a file (the empty string when
\* it has none); on the seed, cat todo.md in /home/user/documents returns
\* that file's seed content.
C14_CatOutput ==
    (IsExec /\ Args[1] = <<"cat">>)
    => /\ Unchanged
       /\ IF ~HasArg(Args) THEN out = <<"cat: missing operand">>
          ELSE IF Absent(PreResolved(Args[2]))
          THEN out = <<"cat: ">> \o Args[2] \o <<": No such file or directory">>
          ELSE IF IsDirNode(PreResolved(Args[2]))
          THEN out = <<"cat: ">> \o Args[2] \o <<": Is a directory">>
          ELSE out = IF "content" \in DOMAIN PreResolved(Args[2]).node[1]
                     THEN PreResolved(Args[2]).node[1].content
                     ELSE <<>>
       /\ (pre.root = initialFileSystem /\ op.cmdStr = <<"cat", " ", "todo.md">>
             /\ pre.currentPath = << <<"home">>, <<"user">>, <<"documents">> >>)
          => out = <<"- [ ] Refactor backend\n- [ ] Fix CSS bugs\n- [x] Deploy to production">>
       /\ (pre.root = initialFileSystem /\ op.cmdStr = <<"cat", " ", "documents">>
             /\ pre.currentPath = << <<"home">>, <<"user">> >>)
          => out = <<"cat: ", "documents", ": Is a directory">>

\* cat todo.md has printed the seed content in /home/user/documents.
C14_Witness ==
    /\ IsExec
    /\ op.cmdStr = <<"cat", " ", "todo.md">>
    /\ pre.currentPath = << <<"home">>, <<"user">>, <<"documents">> >>
    /\ out = <<"- [ ] Refactor backend\n- [ ] Fix CSS bugs\n- [x] Deploy to production">>

\* "/" and the segments joined by "/", written out segment by segment.
RECURSIVE SlashSeparated(_)
SlashSeparated(segs) ==
    IF segs = <<>> THEN <<>>
    ELSE IF Len(segs) = 1 THEN segs[1]
    ELSE segs[1] \o <<"/">> \o SlashSeparated(Tail(segs))

PathText(segs) == <<"/">> \o SlashSeparated(segs)

\* C15: pwd and getCurrentPathString both return "/" followed by the cursor
\* segments joined by "/": "/" at root, "/home/user" after cd home/user
\* from root.
C15_PwdOutput ==
    /\ executeCommand(root, currentPath, <<"pwd">>).output = PathText(currentPath)
    /\ getCurrentPathString(currentPath) = PathText(currentPath)
    /\ (IsExec /\ Args = << <<"pwd">> >>) => out = PathText(currentPath) /\ Unchanged
    /\ op.kind = "getCurrentPathString" => out = PathText(currentPath) /\ Unchanged
    /\ currentPath = <<>> => getCurrentPathString(currentPath) = <<"/">>
    /\ (IsExec /\ op.cmdStr = <<"cd", " ", "home", "/", "user">>
          /\ pre.currentPath = <<>> /\ out = <<>>)
       => executeCommand(root, currentPath, <<"pwd">>).output = <<"/", "home", "/", "user">>

\* pwd has printed "/" with the cursor at root.
C15_Witness ==
    /\ IsExec
    /\ op.cmdStr = <<"pwd">>
    /\ pre.currentPath = <<>>
    /\ out = <<"/">>

IsText(s) == \A i \in 1..Len(s) : s[i] \in STRING

Returns(r) == "thrown" \notin DOMAIN r /\ IsText(r.output)

\* C16: executeCommand never throws: for every line, in every reachable tree
\* and cursor, a cursor whose directory is gone included, it returns a string.
C16_NeverThrows ==
    /\ \A line \in Lines : Returns(executeCommand(root, currentPath, line))
    /\ IsExec => Returns(executeCommand(pre.root, pre.currentPath, op.cmdStr)) /\ IsText(out)

\* ls without argument has returned a message with the cursor at /home/user
\* and that directory gone from the tree.
C16_Witness ==
    /\ IsExec
    /\ op.cmdStr = <<"ls">>
    /\ pre.currentPath = << <<"home">>, <<"user">> >>
    /\ findNode(pre.root, pre.currentPath) = <<>>
    /\ out = <<"ls: cannot access '", "undefined", "'", ": No such file or directory">>

\* Token lists, and the white space put before, between and after the tokens.
TokenLists ==
    { << <<"cd">>, <<".", ".">> >>, << <<"cd">> >>, << <<"ls">>, <<"documents">> >>,
      << <<"cat">>, <<"todo.md">> >>, << <<"echo">>, <<"a">>, <<"b">> >>,
      << <<"pwd">> >>, << <<"nonexistentcmd">>, <<"x">> >> }

Margins == { <<>>, <<" ", "\t">> }

Gaps == { <<" ">>, <<" ", " ">>, <<"\t">> }

RECURSIVE Spaced(_, _)
Spaced(tokens, gap) ==
    IF Len(tokens) = 1 THEN tokens[1]
    ELSE tokens[1] \o gap \o Spaced(Tail(tokens), gap)

\* C17: the result of executeCommand depends only on the tokens of the
\* line, not on the white space around and between them; echo returns its
\* arguments joined by single spaces; an empty or blank line returns the
\* empty string and changes nothing.
C17_WhitespaceInsensitive ==
    /\ \A tokens \in TokenLists : \A lead \in Margins, trail \in Margins : \A gap \in Gaps :
         executeCommand(root, currentPath, lead \o Spaced(tokens, gap) \o trail)
           = executeCommand(root, currentPath, Spaced(tokens, <<" ">>))
    /\ \A lead \in Margins : \A gap \in Gaps :
         executeCommand(root, currentPath,
                        lead \o Spaced(<< <<"echo">>, <<"a">>, <<"b">> >>, gap)).output
           = <<"a", " ", "b">>
    /\ \A blank \in { <<>>, <<" ">>, <<" ", "\t">> } :
         executeCommand(root, currentPath, blank) = Result(<<>>, root, currentPath)
    /\ (IsExec /\ op.cmdStr \in { <<>>, <<" ", "\t">> }) => out = <<>> /\ Unchanged

\* " cd  .. " has moved the cursor from /home/user to /home.
C17_Witness ==
    /\ IsExec
    /\ op.cmdStr = <<" ", "cd", " ", " ", ".", ".", " ">>
    /\ pre.currentPath = << <<"home">>, <<"user">> >>
    /\ currentPath = << <<"home">> >>
    /\ out = <<>>

Builtins ==
    { <<"ls">>, <<"cd">>, <<"pwd">>, <<"cat">>, <<"echo">>, <<"whoami">>, <<"help">> }

\* C18: a first token that is not exactly one of the seven command names
\* returns "<token>: command not found" and changes neither tree nor cursor.
C18_UnknownCommand ==
    /\ (IsExec /\ Args[1] # <<>> /\ Args[1] \notin Builtins)
       => out = Args[1] \o <<": command not found">> /\ Unchanged
    /\ \A line \in { <<"LS">>, <<"cdx", " ", ".", ".">>, <<"nonexistentcmd">> } :
         executeCommand(root, currentPath, line)
           = Result(<<Head(line), ": command not found">>, root, currentPath)

\* LS has been rejected in /home/user.
C18_Witness ==
    /\ IsExec
    /\ op.cmdStr = <<"LS">>
    /\ pre.currentPath = << <<"home">>, <<"user">> >>
    /\ out = <<"LS", ": command not found">>
    /\ Unchanged

\* The segments of the paths the file browser lists.
ListSegments(pathStr) ==
    CASE pathStr = <<"/">> -> <<>>
      [] pathStr = <<"/", "home", "/", "user">> -> << <<"home">>, <<"user">> >>
      [] pathStr = <<"/", "home", "/", "user", "/", "config.json">>
           -> << <<"home">>, <<"user">>, <<"config.json">> >>

\* The node at the end of segs in tree, as a set of at most one node.
RECURSIVE NodesAt(_, _)
NodesAt(node, segs) ==
    IF segs = <<>> THEN {node}
    ELSE IF ~HasChildren(node) THEN {}
    ELSE UNION { NodesAt(node.children[i], Tail(segs)) :
                    i \in { j \in 1..Len(node.children) :
                              /\ node.children[j].name = Head(segs)
                              /\ \A k \in 1..(j - 1) : node.children[k].name # Head(segs) } }

Listing(tree, pathStr) ==
    LET found == NodesAt(tree, ListSegments(pathStr))
    IN  IF \E n \in found : n.type = "directory" /\ HasChildren(n)
        THEN (CHOOSE n \in found : TRUE).children
        ELSE <<>>

\* C19: listFiles(P) returns the empty sequence when P is absent or is not a
\* directory, otherwise the children of that directory in insertion order,
\* whatever the cursor is.
C19_ListFiles ==
    /\ \A P \in ListPaths : \A c \in ProbeCursors \cup {currentPath} :
         listFiles(root, c, P) = Listing(root, P)
    /\ op.kind = "listFiles" => out = Listing(root, op.pathStr) /\ Unchanged

\* /home/user has been listed with the cursor at root, an uploaded file last.
C19_Witness ==
    /\ op.kind = "listFiles"
    /\ op.pathStr = <<"/", "home", "/", "user">>
    /\ pre.currentPath = <<>>
    /\ Len(out) = 3
    /\ out[1].name = <<"documents">>
    /\ out[2].name = <<"config.json">>
    /\ out[3].name = <<"report.pdf">>

\* The tree and the cursor of instance j in a heap.
InstView(h, is, j) == [root |-> h[is[j].root], currentPath |-> is[j].currentPath]

\* C20: calls on one instance change neither the seed template nor the tree
\* or cursor of another instance, and an instance constructed at any time
\* starts with the seed tree and the cursor at home/user.
C20_InstancesIsolated ==
    /\ heap[TemplateRef] = initialFileSystem
    /\ op.kind = "construct"
       => /\ InstView(heap, insts, Len(insts))
               = [root |-> initialFileSystem, currentPath |-> << <<"home">>, <<"user">> >>]
          /\ \A j \in 1..Len(pre.insts) :
               InstView(heap, insts, j) = InstView(pre.heap, pre.insts, j)
    /\ op.kind \in {"instExecuteCommand", "instAddFile"}
       => \A j \in 1..Len(insts) :
            j # op.inst => InstView(heap, insts, j) = InstView(pre.heap, pre.insts, j)

\* A second instance has been constructed after the first one received an
\* upload and moved its cursor.
C20_Witness ==
    /\ op.kind = "construct"
    /\ Len(insts) = 2
    /\ heap[insts[1].root] # initialFileSystem
    /\ insts[1].currentPath = << <<"home">> >>
    /\ heap[insts[2].root] = initialFileSystem
    /\ insts[2].currentPath = << <<"home">>, <<"user">> >>

\* The node the cursor denotes is a directory of the tree.
CursorIsDirectory(tree, cwd) ==
    LET node == findNode(tree, cwd)
    IN  node # <<>> /\ node[1].type = "directory"

CannotAccess(text) == StartsWith(text, <<"ls: cannot access '">>)

\* C24: in every state reached by executeCommand and addFile calls the
\* cursor denotes an existing directory of the tree, and ls with no argument
\* does not return a cannot-access error.
C24_CursorIsDirectory ==
    /\ CursorIsDirectory(root, currentPath)
    /\ ~CannotAccess(executeCommand(root, currentPath, <<"ls">>).output)

\* The names of the file browser's listing of the working directory, joined
\* by two spaces.
BrowserView(tree, cwd) ==
    Join(ChildNames(listFiles(tree, cwd, getCurrentPathString(cwd))), <<" ", " ">>)

\* C25: in every state the names of listFiles(getCurrentPathString()) joined
\* by two spaces equal the output of ls with no argument.
C25_ViewsAgree ==
    BrowserView(root, currentPath) = executeCommand(root, currentPath, <<"ls">>).output

\* The two views agree in every state whose cursor denotes a directory.
ViewsAgreeOnDirectories ==
    CursorIsDirectory(root, currentPath) => C25_ViewsAgree


IsChatTimer(t) == t.kind = "ai"

\* The commands of the pending chat timers of a queue, oldest first.
Scheduled(queue) ==
    LET q == SelectSeq(queue, IsChatTimer)
    IN  [i \in 1..Len(q) |-> q[i].cmd]

\* The command block with the id uid holds the text cmd between its margins.
IsBlock(uid, cmd) ==
    \E m \in 1..Len(messages) : \E index \in 0..(Len(messages[m].parts) - 1) :
        /\ index % 2 = 1
        /\ messages[m].role = "model"
        /\ uid = <<messages[m].id, "-", ToString(index)>>
        /\ cmd = Trim(messages[m].parts[index + 1])

\* One step seen from the chat panel.  Only a Run click makes a block the
\* one being confirmed; a Confirm click is made on that block and schedules
\* its command once; a Cancel click schedules nothing; a scheduled command
\* leaves the queue only by being executed, and the interpreter is called
\* only with the oldest scheduled command.
ChatStep ==
    /\ op'.kind = "run"
       => /\ confirmingId' = <<op'.id>>
          /\ Scheduled(timers') = Scheduled(timers)
          /\ UNCHANGED <<root, currentPath, terminalLines>>
    /\ op'.kind = "cancel"
       => /\ confirmingId = <<op'.id>>
          /\ confirmingId' = <<>>
          /\ Scheduled(timers') = Scheduled(timers)
          /\ UNCHANGED <<root, currentPath, terminalLines>>
    /\ op'.kind = "confirm"
       => /\ confirmingId = <<op'.id>>
          /\ IsBlock(op'.id, op'.cmd)
          /\ confirmingId' = <<>>
          /\ Scheduled(timers') = Append(Scheduled(timers), op'.cmd)
          /\ UNCHANGED <<root, currentPath, terminalLines>>
    /\ (confirmingId' # confirmingId /\ confirmingId' # <<>>) => op'.kind = "run"
    /\ (op'.kind = "App.executeCommand" /\ op'.via = "chat")
       => /\ Scheduled(timers) # <<>>
          /\ op'.cmd = Head(Scheduled(timers))
          /\ Scheduled(timers') = Tail(Scheduled(timers))
          /\ <<root', currentPath'>> =
                 LET r == executeCommand(root, currentPath, op'.cmd)
                 IN  <<r.root, r.currentPath>>
    /\ (op'.kind = "App.executeCommand" /\ op'.via = "terminal")
       => Scheduled(timers') = Scheduled(timers)
    /\ op'.kind \notin {"confirm", "App.executeCommand"}
       => /\ Scheduled(timers') = Scheduled(timers)
          /\ UNCHANGED currentPath

\* C22: a command of a chat reply reaches executeCommand only after a Run
\* click followed by a Confirm click on its block with no Cancel in between,
\* each confirmation forwards the command exactly once, and Cancel forwards
\* nothing.
C22_ForwardedOnConfirmation == [][ChatStep]_vars

\* The second command of the reply, confirmed in the chat, has been run by
\* the interpreter without its margins, and nothing is left scheduled.
C22_Witness ==
    /\ op.kind = "App.executeCommand"
    /\ op.via = "chat"
    /\ op.cmd = <<"pwd">>
    /\ confirmingId = <<>>
    /\ timers = <<>>
    /\ terminalLines[Len(terminalLines)].content = <<"/", "home", "/", "user">>

Secrets == {"hunter2"}

SecretKeys == {"password", "key", "privateKey", "passphrase"}

\* C23: after any save, load, delete and new-connection actions no profile
\* in the persisted store holds a password or key, and loading a profile
\* leaves the password field empty.
C23_NoSecretPersisted ==
    /\ storage # <<>>
       => \A i \in 1..Len(storage[1]) : \A j \in 1..Len(storage[1][i]) :
            LET member == storage[1][i][j]
            IN  /\ member[1] \notin SecretKeys
                /\ member[1] # "port" => member[2] \notin Secrets
    /\ \A i \in 1..Len(form.savedConnections) :
          DOMAIN form.savedConnections[i] \cap SecretKeys = {}
    /\ op.kind = "handleLoadProfile" => form.password = ""

\* A profile saved for password authentication has been loaded while a
\* password was typed in the form.
C23_Witness ==
    /\ op.kind = "handleLoadProfile"
    /\ pre.form.password = "hunter2"
    /\ form.authType = "password"
    /\ form.selectedId # <<>>
    /\ storage # <<>>
    /\ Len(storage[1]) >= 1

IsAppExec == op.kind = "App.executeCommand"

\* C21: when a connect succeeds, also after a disconnect of an earlier
\* session, the interpreter's tree is the seed structure and its cursor is
\* home/user.
C21_SessionStartsFromSeed ==
    (op.kind = "connectTimeout" /\ Connected)
    => /\ root = initialFileSystem
       /\ currentPath = << <<"home">>, <<"user">> >>

\* C26: a line run through App.executeCommand that changes the interpreter's
\* cursor leaves fsPath equal to getCurrentPathString() and fileList equal to
\* the listing of that directory.
C26_CursorChangeSyncsFiles ==
    (IsAppExec /\ currentPath # pre.currentPath)
    => /\ fsPath = getCurrentPathString(currentPath)
       /\ fileList = listFiles(root, currentPath, fsPath)

UIHandlers == {"App.executeCommand", "handleNavigateFiles", "onRefresh", "handleUploadFile"}

\* C27: while connected, after a terminal command, a navigation, a refresh
\* or an upload the displayed fileList is listFiles(fsPath) of the current
\* tree, and a file uploaded into a directory is in the listing shown.
C27_FileListIsCurrent ==
    (Connected /\ op.kind \in UIHandlers)
    => /\ fileList = listFiles(root, currentPath, fsPath)
       /\ (op.kind = "handleUploadFile" /\ IsDirNode(resolvePath(root, currentPath, fsPath)))
          => \E i \in 1..Len(fileList) : fileList[i].name = op.file.name

\* C28: mockSystem.executeCommand runs only while the app is connected.
C28_ExecutesOnlyWhileConnected ==
    IsAppExec => (pre.connection # <<>> /\ pre.connection[1].isConnected)

\* The prompt of a directory: /home/user is shown as ~.
Prompt(segs) ==
    IF segs = << <<"home">>, <<"user">> >> THEN <<"~">> ELSE PathText(segs)

\* C29: the input line a command appends to the terminal records the
\* interpreter's working directory of immediately before the command ran.
C29_PromptIsDirectoryBefore ==
    IsAppExec
    => LET line == terminalLines[Len(terminalLines) - 1]
       IN  /\ line.type = "input"
           /\ line.content = op.cmd
           /\ line.cwd = Prompt(pre.currentPath)

====
